---- MODULE Spec2Model ----
(***************************************************************************)
(* Model of package fetch (src/fetch/http.go): the asynchronous request    *)
(* dispatcher (Get, Request), the process-wide GlobalPanicHandler, and the *)
(* response decoder middlewares (AsText, AsJSON).                          *)
(*                                                                         *)
(* Spec   : the dispatcher.  One caller thread issues NReq requests        *)
(*          through Get or Request; every Request spawns one goroutine     *)
(*          (a "unit"), whose statements interleave freely with the caller *)
(*          and with the other units.                                      *)
(* SpecMw : the middlewares, applied to inputs drawn by InitMw.            *)
(***************************************************************************)
EXTENDS Integers, Sequences, FiniteSets, TLC

\* ------------------------------------------------------------------ bounds
\* number of requests the caller issues
NReq == 2

Reqs == 1..NReq

\* ------------------------------------------------------------------ values
\* error values: the nil error, and non-nil errors tagged by their origin;
\* the errors of different requests are different values
NilErr == [kind |-> "nil", id |-> 0]
ConstructErr(i) == [kind |-> "construct", id |-> i]
TransportErr(i) == [kind |-> "transport", id |-> i]
RedirectErr(i) == [kind |-> "redirect", id |-> i]

\* *http.Response values: 0 is the nil pointer, i > 0 the response to request i
NilRes == 0

\* what a panic carries: "none" when the goroutine is not panicking
NoPanic == "none"

\* URLs handed to Get
Urls == {"wellformed", "malformed"}

\* function values the GlobalPanicHandler slot may hold: the package's own
\* (lines 28-35) and a replacement assigned by the importing program
Handlers == {"default", "custom"}

VARIABLES
  GlobalPanicHandler, \* the package-level variable (line 28)
  procAlive,          \* FALSE once a panic left a goroutine unrecovered
  callerPc,           \* position of the calling thread
  callerReq,          \* the request the calling thread is working on
  callerEntry,        \* the entry point it came in by: "Get" or "Request"
  issued,             \* number of Get/Request calls made so far
  getFailed,          \* getFailed[i]: Get could not build the request
  getPanicked,        \* getPanicked[i]: a panic unwound Get to its caller
  issuedAfterCrash,   \* issuedAfterCrash[i]: request i was issued after some
                      \* goroutine's panic had been logged
  slotAtCall,         \* slotAtCall[i]: what GlobalPanicHandler held when
                      \* Request reached its go statement for request i
  unitPc,             \* unitPc[i]: position of the goroutine of request i
  defers,             \* defers[i]: the goroutine's stack of deferred calls
  res,                \* res[i], err[i]: the goroutine's locals (line 56)
  err,
  panicking,          \* panicking[i]: the value of the panic in flight
  panics,             \* panics[i]: the panics raised while serving request i
                      \* (in its goroutine, or in Get at line 41), in order
  doCalls,            \* doCalls[i]: calls of client.Do for request i
  doOutcome,          \* doOutcome[i]: how client.Do ended ("none": not yet)
  bodyState,          \* bodyState[i]: "none", "open", "closed", "indeterminate"
  closeCalls,         \* closeCalls[i]: calls of res.Body.Close() so far
  cbCount,            \* cbCount[i]: invocations of f for request i
  cbActive,           \* cbActive[i]: invocations of f currently running
  cbArgs,             \* cbArgs[i]: the arguments of the last invocation
  cbThread,           \* cbThread[i]: "caller" or "unit" ("none" before)
  cbOrder,            \* request ids in the order their callbacks were invoked
  guard,              \* guard[i]: the handler the goroutine deferred
  ranHandler,         \* ranHandler[i]: the handler that ran at exit
  logEntries,         \* logEntries[i]: the values goroutine i passed to log.Println
  mwPc,               \* position inside the callback a middleware returned
  mwKind,             \* "AsText" or "AsJSON" ("none" in Spec)
  mwRes,              \* res, err: the arguments the callback was invoked with
  mwErr,
  body,               \* res.Body: the stream and how far it has been read
  reads,              \* Read calls made on res.Body
  buf,                \* buf of lines 78 and 111
  v,                  \* the decode target v points to
  v0,                 \* the decode target before the callback ran
  unmarshalCalls,     \* calls of json.Unmarshal
  innerCalls          \* the invocations of the inner callback f, in order

mwVars == <<mwPc, mwKind, mwRes, mwErr, body, reads, buf, v, v0,
            unmarshalCalls, innerCalls>>

callerVars == <<callerPc, callerReq, callerEntry, issued, getFailed,
               getPanicked, issuedAfterCrash, slotAtCall>>
unitVars == <<unitPc, defers, res, err, panicking, panics, doCalls, guard,
             ranHandler>>
bodyVars == <<bodyState, closeCalls>>
cbVars == <<cbCount, cbActive, cbArgs, cbThread, cbOrder>>
dispVars == <<GlobalPanicHandler, procAlive, callerVars, unitVars, doOutcome,
              bodyVars, cbVars, logEntries>>

\* ------------------------------------------------------------------ Init
InitDisp ==
  /\ GlobalPanicHandler = "default"
  /\ procAlive = TRUE
  /\ callerPc = "idle"
  /\ callerReq = 0
  /\ callerEntry = "none"
  /\ issued = 0
  /\ getFailed = [i \in Reqs |-> FALSE]
  /\ getPanicked = [i \in Reqs |-> FALSE]
  /\ issuedAfterCrash = [i \in Reqs |-> FALSE]
  /\ slotAtCall = [i \in Reqs |-> "none"]
  /\ unitPc = [i \in Reqs |-> "none"]
  /\ defers = [i \in Reqs |-> <<>>]
  /\ res = [i \in Reqs |-> NilRes]
  /\ err = [i \in Reqs |-> NilErr]
  /\ panicking = [i \in Reqs |-> NoPanic]
  /\ panics = [i \in Reqs |-> <<>>]
  /\ doCalls = [i \in Reqs |-> 0]
  /\ doOutcome = [i \in Reqs |-> "none"]
  /\ bodyState = [i \in Reqs |-> "none"]
  /\ closeCalls = [i \in Reqs |-> 0]
  /\ cbCount = [i \in Reqs |-> 0]
  /\ cbActive = [i \in Reqs |-> 0]
  /\ cbArgs = [i \in Reqs |-> [res |-> NilRes, err |-> NilErr]]
  /\ cbThread = [i \in Reqs |-> "none"]
  /\ cbOrder = <<>>
  /\ guard = [i \in Reqs |-> "none"]
  /\ ranHandler = [i \in Reqs |-> "none"]
  /\ logEntries = [i \in Reqs |-> <<>>]

\* ------------------------------------------------------------------ helpers
\* http.NewRequestWithContext(context.Background(), "GET", url, nil), line 39,
\* for request i: the method and the context are valid, so only the URL can
\* fail to parse
NewRequestWithContext(i, url) ==
  IF url = "malformed" THEN [ok |-> FALSE, err |-> ConstructErr(i)]
                       ELSE [ok |-> TRUE, err |-> NilErr]

\* one invocation of the completion callback f(r, e) for request i begins
InvokeCallback(i, r, e, thread) ==
  /\ cbCount' = [cbCount EXCEPT ![i] = @ + 1]
  /\ cbActive' = [cbActive EXCEPT ![i] = @ + 1]
  /\ cbArgs' = [cbArgs EXCEPT ![i] = [res |-> r, err |-> e]]
  /\ cbThread' = [cbThread EXCEPT ![i] = thread]
  /\ cbOrder' = Append(cbOrder, i)

\* some goroutine's panic has been logged by the handler
CrashLogged == \E j \in Reqs : logEntries[j] # <<>>

\* a function is left with deferred calls d pending and panic value pan: the
\* deferred calls run next; with none left the goroutine ends, and a panic
\* nobody recovered ends the process
PcOnExit(d, pan) ==
  IF d # <<>> THEN "unwind" ELSE IF pan = NoPanic THEN "done" ELSE "crashed"

\* ------------------------------------------------------------------ Get
\* Get, line 39: the calling thread enters Get and builds the request
CallGet(i, url) ==
  /\ procAlive /\ callerPc = "idle" /\ i = issued + 1
  /\ issued' = i
  /\ callerReq' = i
  /\ callerEntry' = "Get"
  /\ callerPc' = IF NewRequestWithContext(i, url).ok THEN "Get46" ELSE "Get41"
  /\ getFailed' = [getFailed EXCEPT ![i] = ~NewRequestWithContext(i, url).ok]
  /\ issuedAfterCrash' = [issuedAfterCrash EXCEPT ![i] = CrashLogged]
  /\ UNCHANGED <<slotAtCall, getPanicked, GlobalPanicHandler, procAlive, unitVars,
                 doOutcome, bodyVars, cbVars, logEntries, mwVars>>

\* Get, line 41: f(nil, err) is called on the calling thread
GetCallbackEnter(i) ==
  /\ procAlive /\ callerPc = "Get41" /\ callerReq = i
  /\ InvokeCallback(i, NilRes, NewRequestWithContext(i, "malformed").err,
                    "caller")
  /\ callerPc' = "Get41f"
  /\ UNCHANGED <<slotAtCall, callerReq, callerEntry, issued, getFailed, getPanicked,
                 issuedAfterCrash,
                 GlobalPanicHandler, procAlive, unitVars, doOutcome, bodyVars,
                 logEntries, mwVars>>

\* mutant of GetCallbackExit: the return of line 43 is missing, so Get goes on
\* to line 46 after f has returned
GetCallbackExit_NoReturn(i, p) ==
  /\ procAlive /\ callerPc = "Get41f" /\ callerReq = i
  /\ cbActive' = [cbActive EXCEPT ![i] = @ - 1]
  /\ getPanicked' = [getPanicked EXCEPT ![i] = p]
  /\ panics' = [panics EXCEPT ![i] = IF p THEN Append(@, "callback") ELSE @]
  /\ callerPc' = IF p THEN "idle" ELSE "Request53"
  /\ callerReq' = IF p THEN 0 ELSE i
  /\ callerEntry' = IF p THEN "none" ELSE "Get"
  /\ UNCHANGED <<slotAtCall, issued, getFailed, issuedAfterCrash, GlobalPanicHandler,
                 procAlive, unitPc, defers, res, err, panicking, doCalls,
                 guard, ranHandler, doOutcome,
                 bodyVars, cbCount, cbArgs, cbThread, cbOrder,
                 logEntries, mwVars>>

\* mutant of GetCallbackExit: Get defers the handler as the goroutine of
\* Request does, so a panic of f is stopped and logged inside Get
GetCallbackExit_Recovers(i, p) ==
  /\ procAlive /\ callerPc = "Get41f" /\ callerReq = i
  /\ cbActive' = [cbActive EXCEPT ![i] = @ - 1]
  /\ panics' = [panics EXCEPT ![i] = IF p THEN Append(@, "callback") ELSE @]
  /\ logEntries' = [logEntries EXCEPT ![i] =
                      IF p THEN Append(@, "callback") ELSE @]
  /\ callerPc' = "idle"
  /\ callerReq' = 0
  /\ callerEntry' = "none"
  /\ UNCHANGED <<slotAtCall, issued, getFailed, getPanicked, issuedAfterCrash,
                 GlobalPanicHandler,
                 procAlive, unitPc, defers, res, err, panicking, doCalls,
                 guard, ranHandler, doOutcome,
                 bodyVars, cbCount, cbArgs, cbThread, cbOrder, mwVars>>

\* Get, lines 41-43: f returns and Get returns, or f panics: no deferred call
\* is registered in Get, so the panic unwinds Get and reaches its caller
GetCallbackExit(i, p) ==
  /\ procAlive /\ callerPc = "Get41f" /\ callerReq = i
  /\ cbActive' = [cbActive EXCEPT ![i] = @ - 1]
  /\ getPanicked' = [getPanicked EXCEPT ![i] = p]
  /\ panics' = [panics EXCEPT ![i] = IF p THEN Append(@, "callback") ELSE @]
  /\ callerPc' = "idle"
  /\ callerReq' = 0
  /\ callerEntry' = "none"
  /\ UNCHANGED <<slotAtCall, issued, getFailed, issuedAfterCrash, GlobalPanicHandler,
                 procAlive, unitPc, defers, res, err, panicking, doCalls,
                 guard, ranHandler, doOutcome,
                 bodyVars, cbCount, cbArgs, cbThread, cbOrder,
                 logEntries, mwVars>>

\* Get, line 46: Request(http.DefaultClient, req, f) is called
GetDelegate(i) ==
  /\ procAlive /\ callerPc = "Get46" /\ callerReq = i
  /\ callerPc' = "Request53"
  /\ UNCHANGED <<slotAtCall, callerReq, callerEntry, issued, getFailed, getPanicked,
                 issuedAfterCrash,
                 GlobalPanicHandler, procAlive, unitVars, doOutcome, bodyVars,
                 cbVars, logEntries, mwVars>>

\* ------------------------------------------------------------------ Request
\* Request, line 52: the calling thread enters Request with its own client
CallRequest(i) ==
  /\ procAlive /\ callerPc = "idle" /\ i = issued + 1
  /\ issued' = i
  /\ callerReq' = i
  /\ callerEntry' = "Request"
  /\ callerPc' = "Request53"
  /\ issuedAfterCrash' = [issuedAfterCrash EXCEPT ![i] = CrashLogged]
  /\ UNCHANGED <<slotAtCall, getFailed, getPanicked, GlobalPanicHandler, procAlive, unitVars,
                 doOutcome, bodyVars, cbVars, logEntries, mwVars>>

\* Request, line 53: the go statement creates the goroutine, which is runnable
\* from now on; the calling thread goes on to the end of Request
RequestSpawn(i) ==
  /\ procAlive /\ callerPc = "Request53" /\ callerReq = i
  /\ unitPc' = [unitPc EXCEPT ![i] = "line54"]
  /\ slotAtCall' = [slotAtCall EXCEPT ![i] = GlobalPanicHandler]
  /\ callerPc' = "Request67"
  /\ UNCHANGED <<callerReq, callerEntry, issued, getFailed, getPanicked,
                 issuedAfterCrash,
                 GlobalPanicHandler, procAlive, defers, res, err, panicking,
                 panics, doCalls, guard, ranHandler, doOutcome, bodyVars, cbVars,
                 logEntries, mwVars>>

\* mutant of RequestReturn: Request waits for its goroutine before returning
RequestReturn_Waits(i) ==
  /\ procAlive /\ callerPc = "Request67" /\ callerReq = i
  /\ unitPc[i] = "done"
  /\ callerPc' = "idle"
  /\ callerReq' = 0
  /\ callerEntry' = "none"
  /\ UNCHANGED <<slotAtCall, issued, getFailed, getPanicked, issuedAfterCrash,
                 GlobalPanicHandler, procAlive, unitVars,
                 doOutcome, bodyVars, cbVars, logEntries, mwVars>>

\* Request, line 67 (and then Get, line 47): the call returns to the caller.
\* Nothing in Request waits for the goroutine.
RequestReturn(i) ==
  /\ procAlive /\ callerPc = "Request67" /\ callerReq = i
  /\ callerPc' = "idle"
  /\ callerReq' = 0
  /\ callerEntry' = "none"
  /\ UNCHANGED <<slotAtCall, issued, getFailed, getPanicked, issuedAfterCrash,
                 GlobalPanicHandler, procAlive, unitVars,
                 doOutcome, bodyVars, cbVars, logEntries, mwVars>>

\* the importing program assigns the exported variable GlobalPanicHandler
SetGlobalPanicHandler(h) ==
  /\ procAlive /\ callerPc = "idle" /\ h # GlobalPanicHandler
  /\ GlobalPanicHandler' = h
  /\ UNCHANGED <<procAlive, callerVars, unitVars, doOutcome, bodyVars, cbVars,
                 logEntries, mwVars>>

\* ------------------------------------------------------------------ goroutine
\* mutant of UnitStart: client.Do is started but not awaited, the goroutine
\* goes straight on to line 65
UnitStart_NoWait(i) ==
  /\ procAlive /\ unitPc[i] = "line54"
  /\ defers' = [defers EXCEPT ![i] = Append(@, GlobalPanicHandler)]
  /\ guard' = [guard EXCEPT ![i] = GlobalPanicHandler]
  /\ doCalls' = [doCalls EXCEPT ![i] = @ + 1]
  /\ unitPc' = [unitPc EXCEPT ![i] = "line65"]
  /\ UNCHANGED <<GlobalPanicHandler, procAlive, callerVars, res, err,
                 panicking, panics, ranHandler, doOutcome, bodyVars, cbVars,
                 logEntries, mwVars>>

\* mutant of UnitStart: the handler deferred is the one the variable held
\* when Request was called
UnitStart_HandlerAtCall(i) ==
  /\ procAlive /\ unitPc[i] = "line54"
  /\ defers' = [defers EXCEPT ![i] = Append(@, slotAtCall[i])]
  /\ guard' = [guard EXCEPT ![i] = slotAtCall[i]]
  /\ doCalls' = [doCalls EXCEPT ![i] = @ + 1]
  /\ unitPc' = [unitPc EXCEPT ![i] = "inDo"]
  /\ UNCHANGED <<GlobalPanicHandler, procAlive, callerVars, res, err,
                 panicking, panics, ranHandler, doOutcome, bodyVars, cbVars,
                 logEntries, mwVars>>

\* lines 54-56: defer GlobalPanicHandler(), whose function value is read from
\* the package variable when the defer statement executes; then
\* client.Do(request) is called and the goroutine is suspended in it
UnitStart(i) ==
  /\ procAlive /\ unitPc[i] = "line54"
  /\ defers' = [defers EXCEPT ![i] = Append(@, GlobalPanicHandler)]
  /\ guard' = [guard EXCEPT ![i] = GlobalPanicHandler]
  /\ doCalls' = [doCalls EXCEPT ![i] = @ + 1]
  /\ unitPc' = [unitPc EXCEPT ![i] = "inDo"]
  /\ UNCHANGED <<GlobalPanicHandler, procAlive, callerVars, res, err,
                 panicking, panics, ranHandler, doOutcome, bodyVars, cbVars,
                 logEntries, mwVars>>

\* how client.Do may end (net/http, Client.Do): a response and no error; no
\* response and an error; a response whose body the client has already closed
\* and an error (CheckRedirect failed); or a panic (a nil client, a panicking
\* RoundTripper).  It may also never end: then UnitDoReturn is never taken.
DoOutcomes == {"ok", "transport", "redirect", "panic"}

\* the values client.Do hands back for request i when it ends as out
ClientDo(i, out) ==
  CASE out = "ok" -> [res |-> i, err |-> NilErr, body |-> "open"]
    [] out = "transport" -> [res |-> NilRes, err |-> TransportErr(i), body |-> "none"]
    [] out = "redirect" -> [res |-> i, err |-> RedirectErr(i), body |-> "closed"]

\* mutant of DeferClose: the close of the body is never deferred
DeferClose_Never(d, e) == d

\* mutant of DeferClose: the close is scheduled to run after the handler of
\* line 54 instead of before it
DeferClose_Under(d, e) == IF e = NilErr THEN <<"close">> \o d ELSE d

\* lines 57-59: if err == nil { defer res.Body.Close() }
DeferClose(d, e) == IF e = NilErr THEN Append(d, "close") ELSE d

\* lines 56-59: client.Do(request) ends; res, err are assigned and the close
\* of the body is deferred when err is nil.  A panic inside Do leaves the
\* function literal at once.
UnitDoReturn(i, out) ==
  /\ procAlive /\ unitPc[i] = "inDo"
  /\ doOutcome' = [doOutcome EXCEPT ![i] = out]
  /\ IF out = "panic"
       THEN /\ panicking' = [panicking EXCEPT ![i] = "Do"]
            /\ panics' = [panics EXCEPT ![i] = Append(@, "Do")]
            /\ unitPc' = [unitPc EXCEPT ![i] = PcOnExit(defers[i], "Do")]
            /\ procAlive' = (unitPc'[i] # "crashed")
            /\ UNCHANGED <<res, err, bodyState, defers>>
       ELSE /\ res' = [res EXCEPT ![i] = ClientDo(i, out).res]
            /\ err' = [err EXCEPT ![i] = ClientDo(i, out).err]
            /\ bodyState' = [bodyState EXCEPT ![i] = ClientDo(i, out).body]
            /\ defers' = [defers EXCEPT ![i] = DeferClose(@, ClientDo(i, out).err)]
            /\ unitPc' = [unitPc EXCEPT ![i] = "line65"]
            /\ UNCHANGED <<panicking, panics, procAlive>>
  /\ UNCHANGED <<GlobalPanicHandler, callerVars, doCalls, guard, ranHandler,
                 closeCalls, cbVars, logEntries, mwVars>>

\* mutant of UnitCallbackEnter: f(nil, err), the response is dropped
UnitCallbackEnter_DropsRes(i) ==
  /\ procAlive /\ unitPc[i] = "line65"
  /\ InvokeCallback(i, NilRes, err[i], "unit")
  /\ unitPc' = [unitPc EXCEPT ![i] = "line65f"]
  /\ UNCHANGED <<GlobalPanicHandler, procAlive, callerVars, defers, res, err,
                 panicking, panics, doCalls, guard, ranHandler, doOutcome,
                 bodyVars, logEntries, mwVars>>

\* mutant of UnitCallbackEnter: a non-nil error is wrapped before it is passed
UnitCallbackEnter_Wraps(i) ==
  /\ procAlive /\ unitPc[i] = "line65"
  /\ InvokeCallback(i, res[i],
                    IF err[i] = NilErr THEN NilErr
                    ELSE [kind |-> "wrapped", id |-> err[i].id], "unit")
  /\ unitPc' = [unitPc EXCEPT ![i] = "line65f"]
  /\ UNCHANGED <<GlobalPanicHandler, procAlive, callerVars, defers, res, err,
                 panicking, panics, doCalls, guard, ranHandler, doOutcome,
                 bodyVars, logEntries, mwVars>>

\* mutant of UnitCallbackEnter: f is called only when the call succeeded
UnitCallbackEnter_OnlyOnSuccess(i) ==
  /\ procAlive /\ unitPc[i] = "line65" /\ err[i] = NilErr
  /\ InvokeCallback(i, res[i], err[i], "unit")
  /\ unitPc' = [unitPc EXCEPT ![i] = "line65f"]
  /\ UNCHANGED <<GlobalPanicHandler, procAlive, callerVars, defers, res, err,
                 panicking, panics, doCalls, guard, ranHandler, doOutcome,
                 bodyVars, logEntries, mwVars>>

\* line 65: f(res, err) is called on the goroutine
UnitCallbackEnter(i) ==
  /\ procAlive /\ unitPc[i] = "line65"
  /\ InvokeCallback(i, res[i], err[i], "unit")
  /\ unitPc' = [unitPc EXCEPT ![i] = "line65f"]
  /\ UNCHANGED <<GlobalPanicHandler, procAlive, callerVars, defers, res, err,
                 panicking, panics, doCalls, guard, ranHandler, doOutcome,
                 bodyVars,
                 logEntries, mwVars>>

\* line 65: f returns, or f panics; either way the function literal is left
\* and its deferred calls run
UnitCallbackExit(i, p) ==
  /\ procAlive /\ unitPc[i] = "line65f"
  /\ cbActive' = [cbActive EXCEPT ![i] = @ - 1]
  /\ panicking' = [panicking EXCEPT ![i] = IF p THEN "callback" ELSE NoPanic]
  /\ panics' = [panics EXCEPT ![i] = IF p THEN Append(@, "callback") ELSE @]
  /\ unitPc' = [unitPc EXCEPT ![i] = PcOnExit(defers[i], panicking'[i])]
  /\ procAlive' = (unitPc'[i] # "crashed")
  /\ UNCHANGED <<GlobalPanicHandler, callerVars, defers, res, err, doCalls,
                 guard, ranHandler, doOutcome, bodyVars, cbCount, cbArgs,
                 cbThread, cbOrder, logEntries, mwVars>>

\* how res.Body.Close() may end: it returns (its error is dropped, line 58),
\* or it panics, and then nothing is known about the stream
CloseOutcomes == {"ok", "panic"}

\* the deferred res.Body.Close() of line 58 runs
UnitRunClose(i, out) ==
  /\ procAlive /\ unitPc[i] = "unwind"
  /\ defers[i] # <<>> /\ defers[i][Len(defers[i])] = "close"
  /\ defers' = [defers EXCEPT ![i] = SubSeq(@, 1, Len(@) - 1)]
  /\ closeCalls' = [closeCalls EXCEPT ![i] = @ + 1]
  /\ bodyState' = [bodyState EXCEPT ![i] =
                     IF out = "ok" THEN "closed" ELSE "indeterminate"]
  /\ panicking' = [panicking EXCEPT ![i] = IF out = "ok" THEN @ ELSE "Close"]
  /\ panics' = [panics EXCEPT ![i] = IF out = "ok" THEN @ ELSE Append(@, "Close")]
  /\ unitPc' = [unitPc EXCEPT ![i] = PcOnExit(defers'[i], panicking'[i])]
  /\ procAlive' = (unitPc'[i] # "crashed")
  /\ UNCHANGED <<GlobalPanicHandler, callerVars, res, err, doCalls,
                 guard, ranHandler, doOutcome, cbVars, logEntries, mwVars>>

\* mutant of DefaultHandler: the handler logs without calling recover()
DefaultHandler_NoRecover(i) ==
  /\ logEntries' = [logEntries EXCEPT ![i] =
                      IF panicking[i] = NoPanic THEN @
                      ELSE Append(@, panicking[i])]
  /\ UNCHANGED <<panicking, cbVars>>

\* mutant of DefaultHandler: the check r == nil of lines 30-32 is missing, so
\* the handler logs on every exit
DefaultHandler_AlwaysLogs(i) ==
  /\ panicking' = [panicking EXCEPT ![i] = NoPanic]
  /\ logEntries' = [logEntries EXCEPT ![i] = Append(@, panicking[i])]
  /\ UNCHANGED cbVars

\* mutant of DefaultHandler: after recovering, the handler reports the crash
\* to the completion callback
DefaultHandler_Notifies(i) ==
  /\ panicking' = [panicking EXCEPT ![i] = NoPanic]
  /\ logEntries' = [logEntries EXCEPT ![i] =
                      IF panicking[i] = NoPanic THEN @
                      ELSE Append(@, panicking[i])]
  /\ IF panicking[i] = NoPanic
       THEN UNCHANGED cbVars
       ELSE /\ cbCount' = [cbCount EXCEPT ![i] = @ + 1]
            /\ cbArgs' = [cbArgs EXCEPT ![i] =
                            [res |-> NilRes, err |-> [kind |-> "internal", id |-> i]]]
            /\ cbOrder' = Append(cbOrder, i)
            /\ UNCHANGED <<cbActive, cbThread>>

\* lines 28-35, the package's own handler: r := recover(); nothing more when
\* r is nil; otherwise the panic is stopped and log.Println(r, stack) is called
DefaultHandler(i) ==
  /\ panicking' = [panicking EXCEPT ![i] = NoPanic]
  /\ logEntries' = [logEntries EXCEPT ![i] =
                      IF panicking[i] = NoPanic THEN @
                      ELSE Append(@, panicking[i])]
  /\ UNCHANGED cbVars

\* a replacement handler is code of the importing program: it may recover the
\* panic or let it pass, and it does not write through this package's log call
CustomHandler(i, recovers) ==
  /\ panicking' = [panicking EXCEPT ![i] = IF recovers THEN NoPanic ELSE @]
  /\ UNCHANGED <<cbVars, logEntries>>

\* the deferred handler of line 54 runs
UnitRunHandler(i, recovers) ==
  /\ procAlive /\ unitPc[i] = "unwind"
  /\ defers[i] # <<>> /\ defers[i][Len(defers[i])] \in Handlers
  /\ defers' = [defers EXCEPT ![i] = SubSeq(@, 1, Len(@) - 1)]
  /\ ranHandler' = [ranHandler EXCEPT ![i] = defers[i][Len(defers[i])]]
  /\ IF defers[i][Len(defers[i])] = "default"
       THEN recovers /\ DefaultHandler(i)
       ELSE CustomHandler(i, recovers)
  /\ unitPc' = [unitPc EXCEPT ![i] = PcOnExit(defers'[i], panicking'[i])]
  /\ procAlive' = (unitPc'[i] # "crashed")
  /\ UNCHANGED <<GlobalPanicHandler, callerVars, res, err, panics, doCalls,
                 guard, doOutcome, bodyVars, mwVars>>

\* ------------------------------------------------------------------ Spec
\* no middleware callback is running
MwOff ==
  /\ mwPc = "off"
  /\ mwKind = "none"
  /\ mwRes = NilRes
  /\ mwErr = NilErr
  /\ body = [data |-> <<>>, pos |-> 0, failAt |-> -1, chunk |-> 1,
             closed |-> FALSE]
  /\ reads = 0
  /\ buf = <<>>
  /\ v = [SomeField |-> ""]
  /\ v0 = [SomeField |-> ""]
  /\ unmarshalCalls = 0
  /\ innerCalls = <<>>

Init ==
  /\ InitDisp
  /\ MwOff

Next ==
  \/ \E i \in Reqs, url \in Urls : CallGet(i, url)
  \/ \E i \in Reqs : GetCallbackEnter(i)
  \/ \E i \in Reqs, p \in BOOLEAN : GetCallbackExit(i, p)
  \/ \E i \in Reqs : GetDelegate(i)
  \/ \E i \in Reqs : CallRequest(i)
  \/ \E i \in Reqs : RequestSpawn(i)
  \/ \E i \in Reqs : RequestReturn(i)
  \/ \E i \in Reqs : UnitStart(i)
  \/ \E i \in Reqs, out \in DoOutcomes : UnitDoReturn(i, out)
  \/ \E i \in Reqs : UnitCallbackEnter(i)
  \/ \E i \in Reqs, p \in BOOLEAN : UnitCallbackExit(i, p)
  \/ \E i \in Reqs, out \in CloseOutcomes : UnitRunClose(i, out)
  \/ \E i \in Reqs, recovers \in BOOLEAN : UnitRunHandler(i, recovers)

vars == <<dispVars, mwVars>>

\* the package as shipped: nothing in it assigns GlobalPanicHandler, which
\* holds the function of lines 28-35 throughout
Spec == Init /\ [][Next]_vars

\* the Go scheduler runs a goroutine that can take a step: the function
\* literal of lines 53-66 goes on from the return of client.Do (line 56) to
\* the call of line 65.  Nothing is assumed of client.Do, of f or of Close,
\* which may never return.
UnitFairness ==
  \A i \in Reqs : WF_vars(UnitCallbackEnter(i))

SpecFair == Spec /\ UnitFairness

\* the package inside a program that also replaces the handler
NextSlot ==
  \/ Next
  \/ \E h \in Handlers : SetGlobalPanicHandler(h)

SpecSlot == Init /\ [][NextSlot]_vars

\* ------------------------------------------------------------------ bodies
\* A body is a sequence of bytes, grouped here into the lexical tokens of the
\* text: punctuation, JSON string literals, JSON numbers and bare words.
Punct(c) == [t |-> "punct", v |-> c]
Str(x) == [t |-> "str", v |-> x]
Num(x) == [t |-> "num", v |-> x]
Word(x) == [t |-> "word", v |-> x]

\* largest number of members of a generated JSON object
MaxMembers == 2
\* largest chunk a single Read of the body delivers
MaxChunk == 2
\* latest position at which a generated body stream starts failing
MaxFailPos == 2

Keys == {"SomeField", "somefield", "Other"}
Scalars == {Str("x"), Str("y"), Num("1")}
Members == Keys \X Scalars

\* the text of one member, "key":value
MemberText(m) == <<Str(m[1]), Punct(":"), m[2]>>

RECURSIVE JoinMembers(_)
JoinMembers(ms) ==
  IF ms = <<>> THEN <<>>
  ELSE IF Len(ms) = 1 THEN MemberText(ms[1])
  ELSE MemberText(ms[1]) \o <<Punct(",")>> \o JoinMembers(Tail(ms))

\* the text of the object with members ms
ObjectText(ms) == <<Punct("{")>> \o JoinMembers(ms) \o <<Punct("}")>>

ObjectTexts ==
  UNION {{ObjectText(ms) : ms \in [1..n -> Members]} : n \in 0..MaxMembers}

\* the bodies the middlewares are applied to: every object text and every
\* truncation of one (the empty body among them), top-level scalars, and
\* texts that are not JSON
Bodies ==
  UNION {{SubSeq(b, 1, n) : n \in 0..Len(b)} : b \in ObjectTexts}
    \cup {<<Str("x")>>, <<Num("1")>>, <<Word("not-json")>>,
          <<Word("hello"), Word("world")>>}

\* ------------------------------------------------------------------ io, json
ReadErr == [kind |-> "read", id |-> 1]
ClosedErr == [kind |-> "closed", id |-> 1]
SyntaxErr == [kind |-> "syntax", id |-> 1]
TypeErr(m) == [kind |-> "type", id |-> m]

Min(a, b) == IF a < b THEN a ELSE b

\* ioutil.ReadAll(res.Body), lines 78 and 111: Read is called until it reports
\* io.EOF or an error; what was read is appended chunk by chunk.  st is the
\* stream, acc the bytes read so far, n the Read calls made so far.
RECURSIVE ReadAll(_, _, _)
ReadAll(st, acc, n) ==
  IF st.closed
    THEN [buf |-> acc, err |-> ClosedErr, pos |-> st.pos, reads |-> n + 1]
  ELSE IF st.pos = st.failAt
    THEN [buf |-> acc, err |-> ReadErr, pos |-> st.pos, reads |-> n + 1]
  ELSE IF st.pos = Len(st.data)
    THEN [buf |-> acc, err |-> NilErr, pos |-> st.pos, reads |-> n + 1]
  ELSE LET upto == IF st.failAt > st.pos THEN Min(st.failAt, Len(st.data))
                                         ELSE Len(st.data)
           m == Min(st.chunk, upto - st.pos)
       IN ReadAll([st EXCEPT !.pos = @ + m],
                  acc \o SubSeq(st.data, st.pos + 1, st.pos + m), n + 1)

\* encoding/json's scanner (checkValid) over the tokens of data from index k
\* on, st being what the grammar expects next
RECURSIVE Scan(_, _, _)
Scan(data, k, st) ==
  IF k > Len(data) THEN st = "end"
  ELSE LET tok == data[k] IN
    CASE st = "value" ->
           IF tok.t \in {"str", "num"} THEN Scan(data, k + 1, "end")
           ELSE IF tok = Punct("{") THEN Scan(data, k + 1, "keyOrEnd")
           ELSE FALSE
      [] st = "keyOrEnd" ->
           IF tok = Punct("}") THEN Scan(data, k + 1, "end")
           ELSE IF tok.t = "str" THEN Scan(data, k + 1, "colon")
           ELSE FALSE
      [] st = "key" ->
           IF tok.t = "str" THEN Scan(data, k + 1, "colon") ELSE FALSE
      [] st = "colon" ->
           IF tok = Punct(":") THEN Scan(data, k + 1, "memberValue") ELSE FALSE
      [] st = "memberValue" ->
           IF tok.t \in {"str", "num"} THEN Scan(data, k + 1, "commaOrEnd")
           ELSE FALSE
      [] st = "commaOrEnd" ->
           IF tok = Punct(",") THEN Scan(data, k + 1, "key")
           ELSE IF tok = Punct("}") THEN Scan(data, k + 1, "end")
           ELSE FALSE
      [] st = "end" -> FALSE

checkValid(data) == Scan(data, 1, "value")

\* encoding/json matches an object key to a struct field by name, ignoring case
Fold(k) == IF k \in {"SomeField", "somefield"} THEN "somefield" ELSE k

\* number of members of a valid object text
NumMembers(data) == IF Len(data) <= 2 THEN 0 ELSE (Len(data) - 1) \div 4

\* the decoder's walk over the members m..n of a valid object text: a string
\* value is stored into the matching field; a value of another type is a
\* type error, which is saved (the first one is returned) while decoding goes
\* on with the next member; members without a matching field are skipped
RECURSIVE DecodeMembers(_, _, _, _)
DecodeMembers(data, m, n, acc) ==
  IF m > n THEN acc
  ELSE LET key == data[4 * m - 2].v
           val == data[4 * m]
       IN IF Fold(key) # Fold("SomeField")
            THEN DecodeMembers(data, m + 1, n, acc)
          ELSE IF val.t = "str"
            THEN DecodeMembers(data, m + 1, n,
                               [acc EXCEPT !.v = [SomeField |-> val.v]])
          ELSE DecodeMembers(data, m + 1, n,
                             [acc EXCEPT !.err =
                                IF @ = NilErr THEN TypeErr(m) ELSE @])

\* mutant of Unmarshal: the target is reset to its zero value before the text
\* is looked at
Unmarshal_ResetsTarget(data, target) ==
  IF ~checkValid(data) THEN [v |-> [SomeField |-> ""], err |-> SyntaxErr]
  ELSE IF data[1] # Punct("{")
    THEN [v |-> [SomeField |-> ""], err |-> TypeErr(0)]
  ELSE DecodeMembers(data, 1, NumMembers(data),
                     [v |-> [SomeField |-> ""], err |-> NilErr])

\* json.Unmarshal(buf, v), line 118, for v pointing to a struct with the one
\* string field SomeField (the MyType of lines 91-93): the text is validated
\* first, and only a valid text is decoded into the target
Unmarshal(data, target) ==
  IF ~checkValid(data) THEN [v |-> target, err |-> SyntaxErr]
  ELSE IF data[1] # Punct("{") THEN [v |-> target, err |-> TypeErr(0)]
  ELSE DecodeMembers(data, 1, NumMembers(data), [v |-> target, err |-> NilErr])

\* string(buf), line 85: the bytes of buf, unchanged, as a string
String(b) == [k \in 1..Len(b) |-> b[k]]

\* the empty string
EmptyText == <<>>

\* ------------------------------------------------------------------ middlewares
\* the arguments Get and Request pass to the completion callback
Upstreams ==
  {[res |-> ClientDo(1, out).res, err |-> ClientDo(1, out).err,
    closed |-> ClientDo(1, out).body = "closed"] :
     out \in {"ok", "transport", "redirect"}}
    \cup {[res |-> NilRes, err |-> NewRequestWithContext(1, "malformed").err,
           closed |-> FALSE]}

\* where a generated stream starts failing: -1 is never
FailAts(b) == {-1} \cup {q \in 0..Len(b) : q <= MaxFailPos}

\* values the decode target may hold before the call
Targets == {[SomeField |-> ""], [SomeField |-> "old"]}

\* the callback returned by AsText(f) or AsJSON(v, f) is invoked with (res,
\* err); without a response there is no body to choose
InitMw ==
  /\ InitDisp
  /\ mwKind \in {"AsText", "AsJSON"}
  /\ mwPc = IF mwKind = "AsText" THEN "line72" ELSE "line105"
  /\ \E up \in Upstreams :
       /\ mwRes = up.res
       /\ mwErr = up.err
       /\ \E b \in Bodies, c \in 1..MaxChunk : \E q \in FailAts(b) :
            /\ up.res = NilRes => b = <<>> /\ q = -1 /\ c = 1
            /\ body = [data |-> b, pos |-> 0, failAt |-> q, chunk |-> c,
                       closed |-> up.closed]
  /\ reads = 0
  /\ buf = <<>>
  /\ v0 \in Targets
  /\ mwKind = "AsText" => v0 = [SomeField |-> ""]
  /\ v = v0
  /\ unmarshalCalls = 0
  /\ innerCalls = <<>>

\* the inner callback f is invoked: f(text, e) for AsText, f(e) for AsJSON
CallInner(text, e) ==
  innerCalls' = Append(innerCalls, [text |-> text, err |-> e])

\* mutant of AsTextCheckErr: the return of line 75 is missing, so the callback
\* goes on to read the body after f("", err)
AsTextCheckErr_NoReturn ==
  /\ mwKind = "AsText" /\ mwPc = "line72"
  /\ IF mwErr # NilErr
       THEN CallInner(EmptyText, mwErr)
       ELSE UNCHANGED innerCalls
  /\ mwPc' = "line78"
  /\ UNCHANGED <<mwKind, mwRes, mwErr, body, reads, buf, v, v0,
                 unmarshalCalls, dispVars>>

\* AsText, lines 72-76: if err != nil { f("", err); return }
AsTextCheckErr ==
  /\ mwKind = "AsText" /\ mwPc = "line72"
  /\ IF mwErr # NilErr
       THEN CallInner(EmptyText, mwErr) /\ mwPc' = "done"
       ELSE UNCHANGED innerCalls /\ mwPc' = "line78"
  /\ UNCHANGED <<mwKind, mwRes, mwErr, body, reads, buf, v, v0,
                 unmarshalCalls, dispVars>>

\* mutant of AsTextReadAll: on a read error the bytes read so far are passed
\* on with the error
AsTextReadAll_KeepsPartial ==
  /\ mwKind = "AsText" /\ mwPc = "line78"
  /\ LET r == ReadAll(body, <<>>, 0) IN
       /\ body' = [body EXCEPT !.pos = r.pos]
       /\ reads' = reads + r.reads
       /\ buf' = r.buf
       /\ IF r.err # NilErr
            THEN CallInner(String(r.buf), r.err) /\ mwPc' = "done"
            ELSE UNCHANGED innerCalls /\ mwPc' = "line85"
  /\ UNCHANGED <<mwKind, mwRes, mwErr, v, v0, unmarshalCalls, dispVars>>

\* AsText, lines 78-83: buf, err := ioutil.ReadAll(res.Body);
\* if err != nil { f("", err); return }
AsTextReadAll ==
  /\ mwKind = "AsText" /\ mwPc = "line78"
  /\ LET r == ReadAll(body, <<>>, 0) IN
       /\ body' = [body EXCEPT !.pos = r.pos]
       /\ reads' = reads + r.reads
       /\ buf' = r.buf
       /\ IF r.err # NilErr
            THEN CallInner(EmptyText, r.err) /\ mwPc' = "done"
            ELSE UNCHANGED innerCalls /\ mwPc' = "line85"
  /\ UNCHANGED <<mwKind, mwRes, mwErr, v, v0, unmarshalCalls, dispVars>>

\* AsText, line 85: f(string(buf), nil)
AsTextDeliver ==
  /\ mwKind = "AsText" /\ mwPc = "line85"
  /\ CallInner(String(buf), NilErr)
  /\ mwPc' = "done"
  /\ UNCHANGED <<mwKind, mwRes, mwErr, body, reads, buf, v, v0,
                 unmarshalCalls, dispVars>>

\* AsJSON, lines 105-109: if err != nil { f(err); return }
AsJSONCheckErr ==
  /\ mwKind = "AsJSON" /\ mwPc = "line105"
  /\ IF mwErr # NilErr
       THEN CallInner(EmptyText, mwErr) /\ mwPc' = "done"
       ELSE UNCHANGED innerCalls /\ mwPc' = "line111"
  /\ UNCHANGED <<mwKind, mwRes, mwErr, body, reads, buf, v, v0,
                 unmarshalCalls, dispVars>>

\* AsJSON, lines 111-116: buf, err := ioutil.ReadAll(res.Body);
\* if err != nil { f(err); return }
AsJSONReadAll ==
  /\ mwKind = "AsJSON" /\ mwPc = "line111"
  /\ LET r == ReadAll(body, <<>>, 0) IN
       /\ body' = [body EXCEPT !.pos = r.pos]
       /\ reads' = reads + r.reads
       /\ buf' = r.buf
       /\ IF r.err # NilErr
            THEN CallInner(EmptyText, r.err) /\ mwPc' = "done"
            ELSE UNCHANGED innerCalls /\ mwPc' = "line118"
  /\ UNCHANGED <<mwKind, mwRes, mwErr, v, v0, unmarshalCalls, dispVars>>

\* mutant of AsJSONUnmarshal: the error json.Unmarshal returns is dropped
AsJSONUnmarshal_IgnoresErr ==
  /\ mwKind = "AsJSON" /\ mwPc = "line118"
  /\ v' = Unmarshal(buf, v).v
  /\ unmarshalCalls' = unmarshalCalls + 1
  /\ mwPc' = "line124"
  /\ UNCHANGED <<mwKind, mwRes, mwErr, body, reads, buf, v0, innerCalls,
                 dispVars>>

\* AsJSON, lines 118-122: if err := json.Unmarshal(buf, v); err != nil
\* { f(err); return }
AsJSONUnmarshal ==
  /\ mwKind = "AsJSON" /\ mwPc = "line118"
  /\ LET r == Unmarshal(buf, v) IN
       /\ v' = r.v
       /\ unmarshalCalls' = unmarshalCalls + 1
       /\ IF r.err # NilErr
            THEN CallInner(EmptyText, r.err) /\ mwPc' = "done"
            ELSE UNCHANGED innerCalls /\ mwPc' = "line124"
  /\ UNCHANGED <<mwKind, mwRes, mwErr, body, reads, buf, v0, dispVars>>

\* AsJSON, line 124: f(nil)
AsJSONDeliver ==
  /\ mwKind = "AsJSON" /\ mwPc = "line124"
  /\ CallInner(EmptyText, NilErr)
  /\ mwPc' = "done"
  /\ UNCHANGED <<mwKind, mwRes, mwErr, body, reads, buf, v, v0,
                 unmarshalCalls, dispVars>>

NextMw ==
  \/ AsTextCheckErr
  \/ AsTextReadAll
  \/ AsTextDeliver
  \/ AsJSONCheckErr
  \/ AsJSONReadAll
  \/ AsJSONUnmarshal
  \/ AsJSONDeliver

SpecMw == InitMw /\ [][NextMw]_vars

\* ------------------------------------------------------------------ claims
\* the goroutine of request i has gone past the call of line 65
PastCall(i) == unitPc[i] \in {"line65f", "unwind", "done", "crashed"}

\* client.Do ended by returning for request i
DoReturned(i) == doOutcome[i] \in {"ok", "transport", "redirect"}

\* a panic from source what was raised in goroutine i
Raised(i, what) == \E k \in 1..Len(panics[i]) : panics[i][k] = what

\* C1: when client.Do returns a response and no error, the callback is invoked
\* exactly once for that request: never twice, once as soon as the goroutine
\* is past line 65 (nothing between the return of Do and the call can panic),
\* on the goroutine, with the non-nil response of that request and a nil error.
C1_SuccessDeliveredOnce ==
  \A i \in Reqs :
    doOutcome[i] = "ok" =>
      /\ cbCount[i] <= 1
      /\ PastCall(i) => cbCount[i] = 1
      /\ cbCount[i] = 1 =>
           /\ cbArgs[i].res # NilRes
           /\ cbArgs[i].res = ClientDo(i, "ok").res
           /\ cbArgs[i].err = NilErr
           /\ cbThread[i] = "unit"

C1_Witness ==
  \E i \in Reqs :
    /\ doOutcome[i] = "ok" /\ unitPc[i] = "done" /\ panics[i] = <<>>
    /\ cbCount[i] = 1 /\ cbArgs[i] = [res |-> i, err |-> NilErr]

\* C2: when client.Do returns a transport error, Do was called once (no
\* retry) and the callback is invoked exactly once, with a nil response and
\* the very error value Do returned.
C2_TransportErrorPassedThrough ==
  \A i \in Reqs :
    doOutcome[i] = "transport" =>
      /\ doCalls[i] = 1
      /\ cbCount[i] <= 1
      /\ PastCall(i) => cbCount[i] = 1
      /\ cbCount[i] = 1 =>
           /\ cbArgs[i].res = NilRes
           /\ cbArgs[i].err = ClientDo(i, "transport").err
           /\ cbArgs[i].err # NilErr

C2_Witness ==
  \E i \in Reqs :
    /\ doOutcome[i] = "transport" /\ unitPc[i] = "done"
    /\ cbCount[i] = 1 /\ cbArgs[i] = [res |-> NilRes, err |-> TransportErr(i)]

\* C3: when Get cannot build the request, the callback is invoked exactly once
\* with a nil response and the non-nil construction error, on the calling
\* thread and before Get returns; no goroutine is spawned for the request and
\* client.Do is never called for it.
C3_ConstructionErrorSynchronous ==
  \A i \in Reqs :
    getFailed[i] =>
      /\ unitPc[i] = "none"
      /\ doCalls[i] = 0
      /\ cbCount[i] <= 1
      /\ callerReq # i => cbCount[i] = 1
      /\ callerPc = "Get41f" /\ callerReq = i => cbCount[i] = 1
      /\ cbCount[i] = 1 =>
           /\ cbArgs[i].res = NilRes
           /\ cbArgs[i].err = NewRequestWithContext(i, "malformed").err
           /\ cbArgs[i].err # NilErr
           /\ cbThread[i] = "caller"

C3_Witness ==
  \E i \in Reqs :
    /\ getFailed[i] /\ callerReq # i /\ ~getPanicked[i]
    /\ cbCount[i] = 1 /\ cbThread[i] = "caller" /\ unitPc[i] = "none"

\* C4: a panic raised in the goroutine before the callback is invoked (inside
\* client.Do) does not leave the goroutine: the process stays alive, the
\* goroutine ends normally having written exactly one log entry, its callback
\* is not invoked, the calling thread can still issue the next request, and
\* a request issued after the crash was logged gets its callback invoked
\* once with what its own client call returned.
C4_CrashContained ==
  /\ procAlive
  /\ \A i \in Reqs : unitPc[i] # "crashed"
  /\ \A i \in Reqs :
       doOutcome[i] = "panic" =>
         /\ cbCount[i] = 0
         /\ Len(logEntries[i]) <= 1
         /\ unitPc[i] = "done" => logEntries[i] = <<"Do">>
  /\ CrashLogged /\ callerPc = "idle" /\ issued < NReq =>
       ENABLED CallRequest(issued + 1)
  /\ \A j \in Reqs :
       issuedAfterCrash[j] /\ DoReturned(j) /\ PastCall(j) =>
         /\ cbCount[j] = 1
         /\ cbArgs[j] = [res |-> ClientDo(j, doOutcome[j]).res,
                         err |-> ClientDo(j, doOutcome[j]).err]

C4_Witness ==
  \E i, j \in Reqs :
    /\ i # j
    /\ doOutcome[i] = "panic" /\ unitPc[i] = "done" /\ logEntries[i] = <<"Do">>
    /\ issuedAfterCrash[j] /\ doOutcome[j] = "ok" /\ unitPc[j] = "done"
    /\ panics[j] = <<>> /\ cbCount[j] = 1
    /\ procAlive

C6_CallerNeverWaits ==
  /\ callerPc = "Get46" => ENABLED GetDelegate(callerReq)
  /\ callerPc = "Request53" => ENABLED RequestSpawn(callerReq)
  /\ callerPc = "Request67" => ENABLED RequestReturn(callerReq)

\* the call has returned while client.Do of that request is in progress
C6_Witness ==
  \E i \in Reqs :
    /\ issued = i /\ callerPc = "idle"
    /\ unitPc[i] = "inDo" /\ doOutcome[i] = "none"

\* C7: a callback invoked by the goroutine is invoked after client.Do of that
\* request has returned, with what it returned.  (That callbacks of different
\* requests come in either order is shown by the witnesses.)
C7_CallbackFollowsDo ==
  \A i \in Reqs :
    cbThread[i] = "unit" =>
      /\ DoReturned(i)
      /\ cbArgs[i] = [res |-> ClientDo(i, doOutcome[i]).res,
                      err |-> ClientDo(i, doOutcome[i]).err]

\* the callback of the request issued later was invoked first
C7_Witness ==
  /\ Len(cbOrder) >= 2
  /\ cbOrder[1] > cbOrder[2]
  /\ cbThread[cbOrder[1]] = "unit" /\ cbThread[cbOrder[2]] = "unit"

\* the callbacks were invoked in the order the requests were issued
C7_WitnessInOrder ==
  /\ Len(cbOrder) >= 2
  /\ cbOrder[1] < cbOrder[2]
  /\ cbThread[cbOrder[1]] = "unit" /\ cbThread[cbOrder[2]] = "unit"

\* C8: the callback of a request is invoked at most once and is never running
\* twice at a time; a goroutine that has ended has invoked it zero times
\* exactly when client.Do panicked, and the handler, once it has run, has not
\* invoked it.
C8_AtMostOnce ==
  \A i \in Reqs :
    /\ cbCount[i] <= 1
    /\ cbActive[i] <= 1
    /\ cbActive[i] <= cbCount[i]
    /\ unitPc[i] \in {"done", "crashed"} =>
         (cbCount[i] = 0 <=> doOutcome[i] = "panic")
    /\ ranHandler[i] # "none" =>
         cbCount[i] = (IF doOutcome[i] = "panic" THEN 0 ELSE 1)

C8_Witness ==
  \E i \in Reqs :
    /\ doOutcome[i] = "panic" /\ unitPc[i] = "done"
    /\ ranHandler[i] = "default" /\ logEntries[i] # <<>>
    /\ cbCount[i] = 0

\* the text "hello world"
HelloWorld == <<Word("hello"), Word("world")>>

\* the text {"SomeField":"x"}
SomeFieldX == ObjectText(<<<<"SomeField", Str("x")>>>>)

\* the generated stream of the body fails before its end is reached
ReadFails == body.failAt # -1

\* C9: the callback AsText returns passes to f: ("", err) when err is non-nil,
\* and then the body is never read; otherwise ("", the read error) when
\* reading the body fails; otherwise (text, nil) with text the whole body,
\* byte for byte; "hello world" gives ("hello world", nil).
C9_AsTextMapping ==
  mwKind = "AsText" =>
    /\ mwErr # NilErr => reads = 0 /\ body.pos = 0
    /\ mwPc = "done" =>
         /\ Len(innerCalls) = 1
         /\ innerCalls[1] =
              IF mwErr # NilErr THEN [text |-> EmptyText, err |-> mwErr]
              ELSE IF ReadFails THEN [text |-> EmptyText, err |-> ReadErr]
              ELSE [text |-> body.data, err |-> NilErr]
         /\ mwErr = NilErr /\ ~ReadFails /\ body.data = HelloWorld =>
              innerCalls = <<[text |-> HelloWorld, err |-> NilErr]>>

\* "hello world", read in more than one chunk, has been delivered
C9_Witness ==
  /\ mwKind = "AsText" /\ mwPc = "done"
  /\ mwErr = NilErr /\ ~ReadFails /\ body.data = HelloWorld /\ body.chunk = 1
  /\ reads = 3
  /\ innerCalls = <<[text |-> HelloWorld, err |-> NilErr]>>

\* C10: the callback AsJSON returns passes to f: err when err is non-nil,
\* and then the body is not read and nothing is decoded; otherwise the read
\* error when reading the body fails, and then nothing is decoded; otherwise
\* the error of decoding the whole body into the target; f receives nil only
\* when the body was read to its end and decoding succeeded, and then the
\* target holds what decoding the body gives: {"SomeField":"x"} leaves
\* SomeField equal to "x".
C10_AsJSONPrecedence ==
  mwKind = "AsJSON" =>
    /\ mwErr # NilErr => reads = 0 /\ unmarshalCalls = 0 /\ v = v0
    /\ mwErr = NilErr /\ ReadFails => unmarshalCalls = 0 /\ v = v0
    /\ mwPc = "done" =>
         /\ Len(innerCalls) = 1
         /\ innerCalls[1].err =
              IF mwErr # NilErr THEN mwErr
              ELSE IF ReadFails THEN ReadErr
              ELSE Unmarshal(body.data, v0).err
         /\ innerCalls[1].err = NilErr =>
              /\ mwErr = NilErr /\ ~ReadFails
              /\ body.pos = Len(body.data) /\ buf = body.data
              /\ checkValid(body.data)
              /\ unmarshalCalls = 1
              /\ v = Unmarshal(body.data, v0).v
         /\ mwErr = NilErr /\ ~ReadFails /\ body.data = SomeFieldX =>
              innerCalls[1].err = NilErr /\ v.SomeField = "x"

C10_Witness ==
  /\ mwKind = "AsJSON" /\ mwPc = "done"
  /\ mwErr = NilErr /\ ~ReadFails /\ body.data = SomeFieldX
  /\ v0.SomeField = "old" /\ v.SomeField = "x"
  /\ innerCalls = <<[text |-> EmptyText, err |-> NilErr]>>

\* the path the callback of a middleware takes, read off its inputs
MwPath ==
  IF mwErr # NilErr THEN "upstream error"
  ELSE IF ReadFails THEN "read error"
  ELSE IF mwKind = "AsJSON" /\ Unmarshal(body.data, v0).err # NilErr
    THEN "decode error"
  ELSE "success"

\* C11: one invocation of the callback AsText or AsJSON returns invokes the
\* inner callback f exactly once: never twice at any point, once when the
\* callback has returned, on each of its paths (upstream error, read error,
\* decode error, success), and f has been invoked only as the callback's last
\* step.
C11_InnerExactlyOnce ==
  /\ Len(innerCalls) <= 1
  /\ mwPc = "done" => Len(innerCalls) = 1
  /\ innerCalls # <<>> => mwPc = "done"
  /\ mwPc = "done" =>
       (innerCalls[1].err = NilErr <=> MwPath = "success")

\* AsJSON has returned on its decode-error path having invoked f once
C11_Witness ==
  /\ mwKind = "AsJSON" /\ mwPc = "done"
  /\ MwPath = "decode error" /\ unmarshalCalls = 1
  /\ Len(innerCalls) = 1 /\ innerCalls[1].err # NilErr

\* each path of each middleware is taken to its end
C11_WitnessPaths ==
  /\ mwPc = "done" /\ Len(innerCalls) = 1
  /\ mwKind = "AsText" /\ MwPath = "read error"

\* the callback of AsJSON has returned having delivered a non-nil error
AsJSONFailed ==
  mwKind = "AsJSON" /\ mwPc = "done" /\ innerCalls[1].err # NilErr

\* the text not-json
NotJson == <<Word("not-json")>>

\* the text {"SomeField":"x","SomeField":1}
SomeFieldXThen1 ==
  ObjectText(<<<<"SomeField", Str("x")>>, <<"SomeField", Num("1")>>>>)

\* member m of the object text data sets SomeField to the string s
SetsSomeField(data, m, s) ==
  /\ Fold(data[4 * m - 2].v) = Fold("SomeField")
  /\ data[4 * m] = Str(s)

\* C12 as stated: whenever AsJSON delivers a non-nil error, the decode target
\* after the call equals the decode target before the call.
C12_TargetUntouchedOnAnyError ==
  AsJSONFailed => v = v0

\* C12, amended: when AsJSON delivers an upstream error, a read error or the
\* error of a text that is not valid JSON (not-json among them), the decode
\* target equals its value before the call; a text that is valid JSON but
\* holds a value of the wrong type for a field is decoded nonetheless, so the
\* target may differ from its value before the call only when the delivered
\* error is a type error, and then SomeField holds the string of a member of
\* the body that names it.
C12_TargetOnFailure ==
  AsJSONFailed =>
    /\ innerCalls[1].err.kind # "type" => v = v0
    /\ unmarshalCalls = 0 => v = v0
    /\ body.data = NotJson /\ unmarshalCalls = 1 =>
         innerCalls[1].err = SyntaxErr /\ v = v0
    /\ v # v0 =>
         /\ innerCalls[1].err.kind = "type" /\ checkValid(buf)
         /\ \E m \in 1..NumMembers(buf) :
              /\ SetsSomeField(buf, m, v.SomeField)
              /\ innerCalls[1].err.id # m
    /\ buf = SomeFieldXThen1 /\ unmarshalCalls = 1 =>
         innerCalls[1].err = TypeErr(2) /\ v.SomeField = "x"

\* the body not-json was read to its end and refused, and the field set
\* before the call is still set
C12_Witness ==
  /\ AsJSONFailed /\ body.data = NotJson /\ buf = NotJson
  /\ unmarshalCalls = 1 /\ innerCalls[1].err = SyntaxErr
  /\ v0.SomeField = "old" /\ v = v0

\* goroutine i has ended
Ended(i) == unitPc[i] \in {"done", "crashed"}

\* the handler of goroutine i stopped a panic and logged it
Absorbed(i) == logEntries[i] # <<>>

\* C13 as stated: a goroutine that has ended either had its callback invoked
\* or was absorbed by the handler, never both, and the handler logs nothing
\* when the goroutine ends without a panic.
C13_ExclusiveOutcomes ==
  \A i \in Reqs :
    /\ Ended(i) => ((cbCount[i] = 1) # Absorbed(i))
    /\ Ended(i) /\ panics[i] = <<>> => logEntries[i] = <<>>

\* C13, amended: a goroutine that has ended had its callback invoked or was
\* absorbed by the handler, at least one of the two. It was absorbed exactly
\* when a panic was raised in it, with one log entry. The callback was not
\* invoked exactly when client.Do panicked. Both outcomes hold together
\* exactly when the panic came from the callback or from the deferred
\* Body.Close, which run at and after line 65. When no panic was raised the
\* handler ran and logged nothing.
C13_TerminalOutcomes ==
  \A i \in Reqs :
    /\ cbCount[i] <= 1 /\ Len(logEntries[i]) <= 1
    /\ Absorbed(i) => panics[i] # <<>>
    /\ Ended(i) =>
         /\ cbCount[i] = 1 \/ Absorbed(i)
         /\ Absorbed(i) <=> panics[i] # <<>>
         /\ cbCount[i] = 0 <=> doOutcome[i] = "panic"
         /\ (cbCount[i] = 1 /\ Absorbed(i)) <=>
              (Raised(i, "callback") \/ Raised(i, "Close"))
         /\ ranHandler[i] = "default"
         /\ panics[i] = <<>> => logEntries[i] = <<>>

\* the callback of a goroutine was invoked and panicked, and the handler
\* absorbed the panic: both outcomes for one goroutine
C13_Witness ==
  \E i \in Reqs :
    /\ unitPc[i] = "done" /\ panics[i] = <<"callback">>
    /\ cbCount[i] = 1 /\ logEntries[i] = <<"callback">>

\* a goroutine ended without a panic: the handler ran and logged nothing
C13_WitnessNormal ==
  \E i \in Reqs :
    /\ unitPc[i] = "done" /\ panics[i] = <<>> /\ ranHandler[i] = "default"
    /\ cbCount[i] = 1 /\ logEntries[i] = <<>>

\* C14: in every goroutine the handler of line 54 is the last deferred call
\* to run on every way out. It lies at the bottom of the defer stack from the
\* start of the goroutine; when it has run, the callback has returned or
\* panicked, the Close scheduled for a body has run, nothing is left to run
\* and the goroutine has ended. A panic from client.Do, from the callback or
\* from Body.Close is therefore stopped by it: no goroutine ends crashed, the
\* process lives, and the panic in flight when the handler ran is logged.
\* Close runs only after the callback was left, and it has run when a
\* goroutine whose callback panicked has ended.
C14_HandlerRunsLast ==
  /\ procAlive
  /\ \A i \in Reqs :
       /\ unitPc[i] # "crashed"
       /\ guard[i] # "none" /\ ranHandler[i] = "none" =>
            /\ defers[i] # <<>> /\ defers[i][1] = guard[i]
            /\ \A k \in 2..Len(defers[i]) : defers[i][k] = "close"
       /\ ranHandler[i] # "none" =>
            /\ unitPc[i] = "done" /\ defers[i] = <<>>
            /\ cbActive[i] = 0 /\ panicking[i] = NoPanic
            /\ doOutcome[i] # "panic" => cbCount[i] = 1
            /\ doOutcome[i] = "ok" => closeCalls[i] = 1
            /\ panics[i] # <<>> =>
                 logEntries[i] = <<panics[i][Len(panics[i])]>>
       /\ closeCalls[i] > 0 =>
            cbCount[i] = 1 /\ cbActive[i] = 0 /\ unitPc[i] \in {"unwind", "done"}
       /\ unitPc[i] = "done" /\ Raised(i, "callback") /\ doOutcome[i] = "ok" =>
            closeCalls[i] = 1 /\ ranHandler[i] # "none"

\* the callback panicked after a successful call; Close ran nonetheless and
\* panicked too, and the handler, run last, stopped the panic
C14_Witness ==
  \E i \in Reqs :
    /\ doOutcome[i] = "ok" /\ unitPc[i] = "done"
    /\ panics[i] = <<"callback", "Close">> /\ closeCalls[i] = 1
    /\ ranHandler[i] = "default" /\ logEntries[i] = <<"Close">>

\* C15: with the goroutine scheduled fairly, once client.Do of a request has
\* returned (with a response or with an error) the callback of that request
\* is eventually invoked, and it is invoked with a non-nil response or a
\* non-nil error; when client.Do panics instead, the callback of that request
\* is never invoked.  (That client.Do has returned and that the callback was
\* invoked both stay true once true, so "eventually invoked after the return"
\* is: from some point on, every request whose client.Do has returned has had
\* its callback invoked.)
C15_EventuallyDelivered ==
  /\ <>[](\A i \in Reqs : DoReturned(i) => cbCount[i] = 1)
  /\ [](\A i \in Reqs :
          /\ DoReturned(i) /\ cbCount[i] = 1 =>
               cbArgs[i].res # NilRes \/ cbArgs[i].err # NilErr
          /\ doOutcome[i] = "panic" => cbCount[i] = 0 /\ cbActive[i] = 0)

\* one request was answered with an error through its callback, and the
\* goroutine of another ended after a panic of client.Do without a callback
C15_Witness ==
  \E i, j \in Reqs :
    /\ doOutcome[i] = "transport" /\ cbCount[i] = 1
    /\ cbArgs[i] = [res |-> NilRes, err |-> TransportErr(i)]
    /\ doOutcome[j] = "panic" /\ unitPc[j] = "done" /\ cbCount[j] = 0

\* C16: on the path of Get that fails to build the request (lines 40-43) no
\* goroutine is created and no handler is deferred, so a panic of the
\* callback called there is not stopped by the handler: it reaches the caller
\* of Get, on the calling thread, and nothing is logged for the request.
C16_SyncPanicEscapes ==
  \A i \in Reqs :
    /\ getFailed[i] =>
         /\ unitPc[i] = "none" /\ defers[i] = <<>> /\ doCalls[i] = 0
         /\ guard[i] = "none" /\ ranHandler[i] = "none"
         /\ logEntries[i] = <<>>
         /\ cbCount[i] > 0 => cbThread[i] = "caller"
         /\ Raised(i, "callback") => getPanicked[i]
    /\ getPanicked[i] =>
         /\ getFailed[i] /\ cbCount[i] = 1 /\ cbActive[i] = 0
         /\ Raised(i, "callback")

\* the callback panicked on the construction-error path: the panic reached
\* the caller of Get, nothing ran in between, nothing was logged
C16_Witness ==
  \E i \in Reqs :
    /\ getFailed[i] /\ getPanicked[i] /\ panics[i] = <<"callback">>
    /\ cbCount[i] = 1 /\ cbThread[i] = "caller"
    /\ unitPc[i] = "none" /\ ranHandler[i] = "none" /\ logEntries[i] = <<>>
    /\ callerPc = "idle"

\* C17: the handler that guards a goroutine is the value GlobalPanicHandler
\* holds at the step in which the goroutine starts (line 54), whatever it
\* held when Request was called; from then on the goroutine keeps that
\* handler, whatever is assigned to the variable, and that handler is the one
\* that runs when the goroutine exits.
C17_HandlerReadAtStart ==
  [][\A i \in Reqs :
       /\ unitPc[i] = "line54" /\ unitPc'[i] # "line54" =>
            /\ guard'[i] = GlobalPanicHandler
            /\ defers'[i] = <<GlobalPanicHandler>>
       /\ unitPc[i] \in {"none", "line54"} /\ unitPc'[i] = unitPc[i] =>
            guard'[i] = "none" /\ defers'[i] = <<>>
       /\ guard[i] # "none" =>
            /\ guard'[i] = guard[i]
            /\ defers'[i] # <<>> => defers'[i][1] = guard[i]
       /\ ranHandler[i] # ranHandler'[i] =>
            ranHandler[i] = "none" /\ ranHandler'[i] = guard[i]]_vars

\* the variable was assigned between the call of Request and the start of
\* the goroutine, and the goroutine ran the handler assigned
C17_Witness ==
  \E i \in Reqs :
    /\ slotAtCall[i] = "default" /\ guard[i] = "custom"
    /\ unitPc[i] = "done" /\ ranHandler[i] = "custom"

\* the variable was assigned after the goroutine had started, and the
\* goroutine ran the handler it had started with
C17_WitnessAfterStart ==
  \E i \in Reqs :
    /\ slotAtCall[i] = "default" /\ guard[i] = "default"
    /\ unitPc[i] = "unwind" /\ GlobalPanicHandler = "custom"
    /\ ENABLED UnitRunHandler(i, TRUE)

====
